---- MODULE Spec2Model ----
(***************************************************************************)
(* The MDDB Python client example (clients/python/example.py): main()      *)
(* opens one gRPC channel, issues Add, Get, Search, Stats and Backup as    *)
(* blocking unary calls, prints what came back, closes the channel; the    *)
(* __main__ guard wraps main() in try / except grpc.RpcError / except      *)
(* Exception.                                                              *)
(*                                                                         *)
(* The state is kept per execution of the script (Runs).  Spec is one      *)
(* execution; PairSpec is two executions side by side, each against a      *)
(* server that answers what it likes, for the statements that compare two  *)
(* executions.  The server, the generated message classes and the stub    *)
(* are outside the script: the server's                                    *)
(* answer is any value of the response type or a grpc.RpcError, and a      *)
(* call into the grpc / generated-message API other than the RPC itself    *)
(* (opening the channel, building a request message, reading a response    *)
(* field) either succeeds or raises some other Exception.  print() and     *)
(* channel.close() do not raise.                                           *)
(***************************************************************************)
EXTENDS Naturals, Sequences, FiniteSets

\* Longest list of documents a Search response carries in the model.
MaxDocs == 1

\* Longest list of per-collection statistics a Stats response carries.
MaxColls == 1

\* The execution of the script, and a second one to compare it with.
First == "first"

Second == "second"

Runs == {First, Second}

VARIABLES
    pc,        \* pc[r]: where execution r stands, <<operation, phase>>
    channel,   \* channel[r]: the channel's state ("none", "open", "closed") and target
    opened,    \* opened[r]: how many times a channel was created
    sent,      \* sent[r]: the requests handed to the channel, in order
    received,  \* received[r]: the operations whose response came back, in order
    inflight,  \* inflight[r]: requests sent and not yet answered
    locals,    \* locals[r]: main()'s locals doc, resp, stats, backup_resp, coll, the
               \*   enumerate counter i (0 before the loop) and the position j of
               \*   the iteration over stats.collections
    exc,       \* exc[r]: the exception raised out of main(), "none" if none
    out        \* out[r]: what was printed, one tag per message

vars == <<pc, channel, opened, sent, received, inflight, locals, exc, out>>

----------------------------------------------------------------------------
\* Constants of the script

\* The address given to grpc.insecure_channel.
Target == "localhost:11024"

\* The calls with Search issued before Get.
OpsSearchFirst == <<"Add", "Search", "Get", "Stats", "Backup">>

\* The order in which main() issues the calls.
Ops == <<"Add", "Get", "Search", "Stats", "Backup">>

\* The limit field of the Search request.
SearchLimit == 10

\* A local variable that has not been assigned yet.
Unbound == [unbound |-> TRUE]

\* AddRequest(...) as written in main(); L is the local scope at that point.
AddRequest(L) ==
    [op |-> "Add", collection |-> "blog", key |-> "python-example", lang |-> "en_US",
     meta |-> [category |-> <<"tutorial", "python">>,
               author |-> <<"Python Developer">>,
               tags |-> <<"grpc", "api", "example">>],
     content_md |-> "# Python gRPC Example\n\nThis document was created using the Python client!"]

\* A Get request that takes its key from the Document bound to doc.
GetRequestFromDoc(L) ==
    [op |-> "Get", collection |-> "blog", key |-> L.doc.key, lang |-> "en_US",
     env |-> [year |-> "2024", language |-> "Python"]]

\* A Get request that sends one more env entry than the caller supplied.
GetRequestExtraEnv(L) ==
    [op |-> "Get", collection |-> "blog", key |-> "python-example", lang |-> "en_US",
     env |-> [year |-> "2024", language |-> "Python", client |-> "python"]]

\* GetRequest(...) as written in main().
GetRequest(L) ==
    [op |-> "Get", collection |-> "blog", key |-> "python-example", lang |-> "en_US",
     env |-> [year |-> "2024", language |-> "Python"]]

\* SearchRequest(...) as written in main().
SearchRequest(L) ==
    [op |-> "Search", collection |-> "blog",
     filter_meta |-> [category |-> <<"tutorial">>],
     sort |-> "updatedAt", asc |-> FALSE, limit |-> SearchLimit]

\* StatsRequest() as written in main().
StatsRequest(L) == [op |-> "Stats"]

\* BackupRequest(...) as written in main().
BackupRequest(L) == [op |-> "Backup", to |-> "python-backup.db"]

\* The request main() builds for the k-th call.
Request(k, L) ==
    CASE k = 1 -> AddRequest(L)
      [] k = 2 -> GetRequest(L)
      [] k = 3 -> SearchRequest(L)
      [] k = 4 -> StatsRequest(L)
      [] k = 5 -> BackupRequest(L)

----------------------------------------------------------------------------
\* What the server may answer (its choice, not the client's)

Documents ==
    { [id |-> "blog|python-example|en_US", key |-> "python-example", lang |-> "en_US",
       added_at |-> 1, content_md |-> "# Python gRPC Example"],
      [id |-> "blog|other|pl_PL", key |-> "other", lang |-> "pl_PL",
       added_at |-> 2, content_md |-> "# Inny"] }

SeqsUpTo(S, n) == UNION { [1..m -> S] : m \in 0..n }

SearchResponses == { [documents |-> ds] : ds \in SeqsUpTo(Documents, MaxDocs) }

CollectionStats == { [name |-> "blog", document_count |-> 1, revision_count |-> 2] }

StatsResponses ==
    { [database_path |-> "mddb.db", database_size |-> 2048, mode |-> "wr",
       total_documents |-> 1, total_revisions |-> 2, collections |-> cs] :
      cs \in SeqsUpTo(CollectionStats, MaxColls) }

BackupResponses == { [backup |-> "python-backup.db"], [backup |-> "/var/backups/python-backup.db"] }

\* The values the k-th call can return.
Responses(k) ==
    CASE k = 1 -> Documents
      [] k = 2 -> Documents
      [] k = 3 -> SearchResponses
      [] k = 4 -> StatsResponses
      [] k = 5 -> BackupResponses

\* The local variable the k-th call's result is assigned to.
Bind(k, L, v) ==
    CASE k = 1 -> [L EXCEPT !.doc = v]
      [] k = 2 -> [L EXCEPT !.doc = v]
      [] k = 3 -> [L EXCEPT !.resp = v]
      [] k = 4 -> [L EXCEPT !.stats = v]
      [] k = 5 -> [L EXCEPT !.backup_resp = v]

----------------------------------------------------------------------------
\* The state after the interpreter has entered the try block, before main()

Init ==
    /\ pc = [r \in Runs |-> <<"main", "connect">>]
    /\ channel = [r \in Runs |-> [state |-> "none", target |-> ""]]
    /\ opened = [r \in Runs |-> 0]
    /\ sent = [r \in Runs |-> <<>>]
    /\ received = [r \in Runs |-> <<>>]
    /\ inflight = [r \in Runs |-> 0]
    /\ locals = [r \in Runs |-> [doc |-> Unbound, resp |-> Unbound, stats |-> Unbound,
                                 backup_resp |-> Unbound, coll |-> Unbound,
                                 i |-> 0, j |-> 0]]
    /\ exc = [r \in Runs |-> "none"]
    /\ out = [r \in Runs |-> <<>>]

----------------------------------------------------------------------------
\* Exceptions and the except clauses of the __main__ guard

\* grpc.RpcError is a subclass of Exception.
IsInstance(e, cls) == e = cls \/ (cls = "Exception" /\ e \in {"RpcError", "Exception"})

\* The clauses with the catch-all first.
ExceptClausesCatchAllFirst == <<"Exception", "RpcError">>

\* The guard without its grpc.RpcError clause.
ExceptClausesCatchAllOnly == <<"Exception">>

\* The except clauses of the try statement, in the order written.
ExceptClauses == <<"RpcError", "Exception">>

\* The class of the first clause that matches e, "uncaught" if none does.
Handler(e) ==
    LET hits == { n \in 1..Len(ExceptClauses) : IsInstance(e, ExceptClauses[n]) }
    IN  IF hits = {} THEN "uncaught"
        ELSE ExceptClauses[CHOOSE n \in hits : \A m \in hits : n <= m]

\* What the clause of class cls prints.
Report(cls) == IF cls = "RpcError" THEN "grpc_error" ELSE "error"

WriteOut(r, tags) == out' = [out EXCEPT ![r] = out[r] \o tags]

\* Execution r raises e: control leaves main() for the except clauses.
Raise(r, e) ==
    /\ pc' = [pc EXCEPT ![r] = <<"main", "raised">>]
    /\ exc' = [exc EXCEPT ![r] = e]

\* Index of the operation execution r is at, 0 outside the five calls.
OpIndex(r) ==
    IF \E k \in 1..Len(Ops) : Ops[k] = pc[r][1]
    THEN CHOOSE k \in 1..Len(Ops) : Ops[k] = pc[r][1]
    ELSE 0

At(r, op, phase) == pc[r] = <<op, phase>>

Goto(r, op, phase) == pc' = [pc EXCEPT ![r] = <<op, phase>>]

\* The message printed before the k-th call.
Announce(k) == <<"announce " \o Ops[k]>>

----------------------------------------------------------------------------
\* Lines 14-18: channel = grpc.insecure_channel(...); client = MDDBStub(channel)
Connect(r) ==
    /\ At(r, "main", "connect")
    /\ \/ /\ Raise(r, "Exception")
          /\ UNCHANGED <<channel, opened, out>>
       \/ /\ channel' = [channel EXCEPT ![r] = [state |-> "open", target |-> Target]]
          /\ opened' = [opened EXCEPT ![r] = opened[r] + 1]
          /\ WriteOut(r, <<"connected">>)
          /\ Goto(r, Ops[1], "call")
          /\ UNCHANGED exc
    /\ UNCHANGED <<sent, received, inflight, locals>>

\* A client that sends the next request while the previous one is outstanding.
CanSendPipelined(r) == OpIndex(r) > 0 /\ pc[r][2] \in {"call", "wait"}

\* Execution r is at a client.<Op>(...) statement that has not been issued.
CanSend(r) == OpIndex(r) > 0 /\ pc[r][2] = "call"

\* A client that opens a fresh channel for every call.
SendReopen(r) ==
    /\ CanSend(r)
    /\ WriteOut(r, Announce(OpIndex(r)))
    /\ channel' = [channel EXCEPT ![r] = [state |-> "open", target |-> Target]]
    /\ opened' = [opened EXCEPT ![r] = opened[r] + 1]
    /\ sent' = [sent EXCEPT ![r] =
           Append(sent[r], [target |-> Target, request |-> Request(OpIndex(r), locals[r])])]
    /\ inflight' = [inflight EXCEPT ![r] = inflight[r] + 1]
    /\ Goto(r, pc[r][1], "wait")
    /\ UNCHANGED <<received, locals, exc>>

\* Lines 23-24, 42-43, 56-57, 74-75, 94-95: print, build the request message and
\* hand it to the stub, which sends it over the channel and blocks.
Send(r) ==
    /\ CanSend(r)
    /\ WriteOut(r, Announce(OpIndex(r)))
    /\ \/ /\ Raise(r, "Exception")
          /\ UNCHANGED <<sent, inflight>>
       \/ /\ channel[r].state = "open"
          /\ sent' = [sent EXCEPT ![r] =
                 Append(sent[r], [target |-> channel[r].target,
                                  request |-> Request(OpIndex(r), locals[r])])]
          /\ inflight' = [inflight EXCEPT ![r] = inflight[r] + 1]
          /\ Goto(r, pc[r][1], "wait")
          /\ UNCHANGED exc
    /\ UNCHANGED <<channel, opened, received, locals>>

\* The blocked call returns the server's response, which is assigned.
Return(r) ==
    /\ OpIndex(r) > 0 /\ pc[r][2] = "wait"
    /\ \E v \in Responses(OpIndex(r)) :
          locals' = [locals EXCEPT ![r] = Bind(OpIndex(r), locals[r], v)]
    /\ received' = [received EXCEPT ![r] = Append(received[r], pc[r][1])]
    /\ inflight' = [inflight EXCEPT ![r] = inflight[r] - 1]
    /\ Goto(r, pc[r][1], "process")
    /\ UNCHANGED <<channel, opened, sent, exc, out>>

\* A client that answers a failed call by issuing it again.
FailRetry(r) ==
    /\ OpIndex(r) > 0 /\ pc[r][2] = "wait"
    /\ Len(sent[r]) < Len(Ops) + 1
    /\ inflight' = [inflight EXCEPT ![r] = inflight[r] - 1]
    /\ Goto(r, pc[r][1], "call")
    /\ UNCHANGED <<channel, opened, sent, received, locals, exc, out>>

\* The blocked call raises grpc.RpcError; nothing in main() catches it.
Fail(r) ==
    /\ OpIndex(r) > 0 /\ pc[r][2] = "wait"
    /\ inflight' = [inflight EXCEPT ![r] = inflight[r] - 1]
    /\ Raise(r, "RpcError")
    /\ UNCHANGED <<channel, opened, sent, received, locals, out>>

\* Lines 35-37: print doc.id and doc.added_at.
ProcessAdd(r) ==
    /\ At(r, "Add", "process")
    /\ \/ /\ Raise(r, "Exception")
          /\ UNCHANGED out
       \/ /\ WriteOut(r, <<"added">>)
          /\ Goto(r, "Get", "call")
          /\ UNCHANGED exc
    /\ UNCHANGED <<channel, opened, sent, received, inflight, locals>>

\* Lines 49-51: print doc.key and the head of doc.content_md.
ProcessGet(r) ==
    /\ At(r, "Get", "process")
    /\ \/ /\ Raise(r, "Exception")
          /\ UNCHANGED out
       \/ /\ WriteOut(r, <<"retrieved">>)
          /\ Goto(r, "Search", "call")
          /\ UNCHANGED exc
    /\ UNCHANGED <<channel, opened, sent, received, inflight, locals>>

\* Line 66: print len(resp.documents); the for loop starts.
ProcessSearch(r) ==
    /\ At(r, "Search", "process")
    /\ \/ /\ Raise(r, "Exception")
          /\ UNCHANGED out
       \/ /\ WriteOut(r, <<"found">>)
          /\ Goto(r, "Search", "loop")
          /\ UNCHANGED exc
    /\ UNCHANGED <<channel, opened, sent, received, inflight, locals>>

\* Lines 67-69: for i, doc in enumerate(resp.documents, 1): print; then print().
SearchLoop(r) ==
    /\ At(r, "Search", "loop")
    /\ \/ /\ locals[r].i < Len(locals[r].resp.documents)
          /\ locals' = [locals EXCEPT ![r].i = @ + 1,
                                      ![r].doc = locals[r].resp.documents[locals[r].i + 1]]
          /\ \/ /\ Raise(r, "Exception")
                /\ UNCHANGED out
             \/ /\ WriteOut(r, <<"item">>)
                /\ UNCHANGED <<pc, exc>>
       \/ /\ locals[r].i = Len(locals[r].resp.documents)
          /\ WriteOut(r, <<"">>)
          /\ Goto(r, "Stats", "call")
          /\ UNCHANGED <<locals, exc>>
    /\ UNCHANGED <<channel, opened, sent, received, inflight>>

\* Lines 76-85: print the statistics; if stats.collections: print the heading.
ProcessStats(r) ==
    /\ At(r, "Stats", "process")
    /\ \/ /\ Raise(r, "Exception")
          /\ UNCHANGED out
       \/ /\ locals[r].stats.collections # <<>>
          /\ WriteOut(r, <<"stats", "collections">>)
          /\ Goto(r, "Stats", "loop")
          /\ UNCHANGED exc
       \/ /\ locals[r].stats.collections = <<>>
          /\ WriteOut(r, <<"stats", "">>)
          /\ Goto(r, "Backup", "call")
          /\ UNCHANGED exc
    /\ UNCHANGED <<channel, opened, sent, received, inflight, locals>>

\* Lines 86-89: for coll in stats.collections: print; then print().
StatsLoop(r) ==
    /\ At(r, "Stats", "loop")
    /\ \/ /\ locals[r].j < Len(locals[r].stats.collections)
          /\ locals' = [locals EXCEPT ![r].j = @ + 1,
                                      ![r].coll = locals[r].stats.collections[locals[r].j + 1]]
          /\ \/ /\ Raise(r, "Exception")
                /\ UNCHANGED out
             \/ /\ WriteOut(r, <<"coll">>)
                /\ UNCHANGED <<pc, exc>>
       \/ /\ locals[r].j = Len(locals[r].stats.collections)
          /\ WriteOut(r, <<"">>)
          /\ Goto(r, "Backup", "call")
          /\ UNCHANGED <<locals, exc>>
    /\ UNCHANGED <<channel, opened, sent, received, inflight>>

\* Lines 98-99: print backup_resp.backup.
ProcessBackup(r) ==
    /\ At(r, "Backup", "process")
    /\ \/ /\ Raise(r, "Exception")
          /\ UNCHANGED out
       \/ /\ WriteOut(r, <<"backup">>)
          /\ Goto(r, "main", "success")
          /\ UNCHANGED exc
    /\ UNCHANGED <<channel, opened, sent, received, inflight, locals>>

\* Line 101: print("All operations completed successfully!").
PrintSuccess(r) ==
    /\ At(r, "main", "success")
    /\ WriteOut(r, <<"success">>)
    /\ Goto(r, "main", "close")
    /\ UNCHANGED <<channel, opened, sent, received, inflight, locals, exc>>

\* Line 102: channel.close(); main() returns and the try statement ends.
CloseChannel(r) ==
    /\ At(r, "main", "close")
    /\ channel' = [channel EXCEPT ![r].state = "closed"]
    /\ Goto(r, "main", "done")
    /\ UNCHANGED <<opened, sent, received, inflight, locals, exc, out>>

\* A guard that prints the closing message after the report as well.
ExceptThenSuccess(r) ==
    /\ At(r, "main", "raised")
    /\ Goto(r, "main", "done")
    /\ WriteOut(r, <<Report(Handler(exc[r])), "success">>)
    /\ UNCHANGED <<channel, opened, sent, received, inflight, locals, exc>>

\* Lines 108-111: the first matching except clause prints its report and the
\* script ends; an exception no clause matches leaves as a traceback.
Except(r) ==
    /\ At(r, "main", "raised")
    /\ IF Handler(exc[r]) = "uncaught"
       THEN /\ Goto(r, "main", "uncaught")
            /\ UNCHANGED out
       ELSE /\ Goto(r, "main", "done")
            /\ WriteOut(r, <<Report(Handler(exc[r]))>>)
    /\ UNCHANGED <<channel, opened, sent, received, inflight, locals, exc>>

\* One step of execution r.
Step(r) ==
    \/ Connect(r)
    \/ Send(r)
    \/ Return(r)
    \/ Fail(r)
    \/ ProcessAdd(r)
    \/ ProcessGet(r)
    \/ ProcessSearch(r)
    \/ SearchLoop(r)
    \/ ProcessStats(r)
    \/ StatsLoop(r)
    \/ ProcessBackup(r)
    \/ PrintSuccess(r)
    \/ CloseChannel(r)
    \/ Except(r)

\* One execution of the script.
Next == Step(First)

Spec == Init /\ [][Next]_vars

\* The interpreter keeps executing the script, and every call that was issued
\* eventually returns or raises.
FairSpec == Spec /\ WF_vars(Next)

\* Two executions of the script, independent of each other.
PairNext == \E r \in Runs : Step(r)

PairSpec == Init /\ [][PairNext]_vars

----------------------------------------------------------------------------
\* Vocabulary of the properties

Done(r) == pc[r] = <<"main", "done">>

Uncaught(r) == pc[r] = <<"main", "uncaught">>

\* The process of execution r has ended.
Terminated(r) == Done(r) \/ Uncaught(r)

Count(r, tag) == Cardinality({ n \in 1..Len(out[r]) : out[r][n] = tag })

Printed(r, tag) == Count(r, tag) > 0

ErrorReports(r) == Count(r, "grpc_error") + Count(r, "error")

\* The operations of the requests execution r has sent, in order.
SentOps(r) == [n \in 1..Len(sent[r]) |-> sent[r][n].request.op]

Prefix(s, n) == SubSeq(s, 1, n)

AllReturned(r) == Len(received[r]) = 5

Success(r) ==
    AllReturned(r) /\ Printed(r, "success") /\ channel[r].state = "closed"

Failure(r) == ErrorReports(r) = 1

----------------------------------------------------------------------------
\* C1: when one of the five calls raises grpc.RpcError, the exception is caught:
\* it never leaves the process as an uncaught exception, the except statement
\* can always take it, and the execution ends normally with the gRPC report
\* (and only that report) as the last thing printed.
C1_RpcErrorIsReported ==
    \A r \in Runs :
        exc[r] = "RpcError" =>
            /\ ~Uncaught(r)
            /\ pc[r] \in {<<"main", "raised">>, <<"main", "done">>}
            /\ pc[r] = <<"main", "raised">> => ENABLED Except(r)
            /\ Done(r) => /\ out[r][Len(out[r])] = "grpc_error"
                          /\ Count(r, "grpc_error") = 1

\* The execution failed in Backup after four calls succeeded and ended with
\* the gRPC report.
C1_Witness ==
    /\ Done(First) /\ exc[First] = "RpcError" /\ Printed(First, "grpc_error")
    /\ Len(received[First]) = 4 /\ Len(sent[First]) = 5

\* The execution failed in Add, its first call.
C1_WitnessFirstCall ==
    /\ Done(First) /\ exc[First] = "RpcError" /\ Printed(First, "grpc_error")
    /\ Len(received[First]) = 0 /\ Len(sent[First]) = 1

\* C2: in every execution that terminates, whether all five calls succeeded or
\* one of them failed, the channel opened at the start of main() is closed
\* when the process ends.
C2_ChannelClosedAtExit ==
    \A r \in Runs :
        (Terminated(r) /\ opened[r] > 0 /\ exc[r] \in {"none", "RpcError"}) =>
            channel[r].state = "closed"

\* C3: the requests go out in the order Add, Get, Search, Stats, Backup; a
\* request is sent only when every earlier one has returned a response, so at
\* most one is outstanding.
C3_SequentialFixedOrder ==
    \A r \in Runs :
        /\ Len(sent[r]) <= 5
        /\ SentOps(r) = Prefix(<<"Add", "Get", "Search", "Stats", "Backup">>, Len(sent[r]))
        /\ received[r] = Prefix(<<"Add", "Get", "Search", "Stats", "Backup">>, Len(received[r]))
        /\ inflight[r] \in {0, 1}
        /\ Len(received[r]) <= Len(sent[r])
        /\ Len(sent[r]) <= Len(received[r]) + 1
        /\ inflight[r] = 1 => Len(sent[r]) = Len(received[r]) + 1

\* The Backup request is outstanding and the four calls before it have returned.
C3_Witness ==
    Len(sent[First]) = 5 /\ Len(received[First]) = 4 /\ inflight[First] = 1

\* C4: no operation is sent twice, and from the moment a call has failed
\* nothing more is sent.
C4_NoRetry ==
    /\ [](\A r \in Runs : \A m, n \in 1..Len(sent[r]) :
              sent[r][m].request.op = sent[r][n].request.op => m = n)
    /\ [][\A r \in Runs : exc[r] = "RpcError" => sent'[r] = sent[r]]_vars

\* The execution ended after Search failed: three requests sent, Stats and
\* Backup never sent.
C4_Witness ==
    /\ Done(First) /\ exc[First] = "RpcError"
    /\ SentOps(First) = <<"Add", "Get", "Search">>
    /\ Len(received[First]) = 2

\* C5: a grpc.RpcError is reported by the gRPC clause and never by the
\* catch-all, any other exception raised in main() by the catch-all; an
\* execution in which something was raised prints exactly one report, one in
\* which nothing was raised prints none.
C5_OneHandlerPerError ==
    \A r \in Runs :
        /\ ErrorReports(r) <= 1
        /\ exc[r] = "none" => ErrorReports(r) = 0
        /\ ~Uncaught(r)
        /\ (Done(r) /\ exc[r] = "RpcError") =>
               Count(r, "grpc_error") = 1 /\ Count(r, "error") = 0
        /\ (Done(r) /\ exc[r] = "Exception") =>
               Count(r, "error") = 1 /\ Count(r, "grpc_error") = 0

\* The execution ended on an exception raised while the Search response was
\* being processed, reported by the catch-all.
C5_Witness ==
    /\ Done(First) /\ exc[First] = "Exception" /\ Printed(First, "error")
    /\ Len(received[First]) = 3 /\ Len(sent[First]) = 3

\* The execution ended on a failed call, reported by the gRPC clause.
C5_WitnessRpcError ==
    Done(First) /\ exc[First] = "RpcError" /\ Count(First, "grpc_error") = 1

\* The execution ended on an exception raised while the channel was opened.
C5_WitnessConnect ==
    Done(First) /\ exc[First] = "Exception" /\ opened[First] = 0 /\ Printed(First, "error")

\* The execution ended with nothing raised and no report.
C5_WitnessNoError ==
    Done(First) /\ exc[First] = "none" /\ ErrorReports(First) = 0

\* C6: the requests of two executions agree position by position whatever
\* the servers answered; two executions in which all calls succeed have sent
\* the same five requests.
C6_RequestsIndependentOfResponses ==
    /\ \A n \in 1..Len(sent[First]) : n <= Len(sent[Second]) => sent[First][n] = sent[Second][n]
    /\ (AllReturned(First) /\ AllReturned(Second)) => sent[First] = sent[Second]

\* Both executions succeeded, and the document, the search result, the
\* statistics and the backup path one was left with all differ from the other's.
C6_Witness ==
    /\ Done(First) /\ Done(Second) /\ Printed(First, "success") /\ Printed(Second, "success")
    /\ locals[First].doc # locals[Second].doc
    /\ locals[First].resp # locals[Second].resp
    /\ locals[First].stats # locals[Second].stats
    /\ locals[First].backup_resp # locals[Second].backup_resp
    /\ Len(sent[First]) = 5 /\ Len(sent[Second]) = 5

\* Both executions have sent Get, after Add returned them different documents.
C6_WitnessGetAfterAdd ==
    /\ pc[First] = <<"Get", "wait">> /\ pc[Second] = <<"Get", "wait">>
    /\ locals[First].doc.id # locals[Second].doc.id
    /\ locals[First].doc.key # locals[Second].doc.key

\* C7: the Get request names the document the Add request wrote,
\* ('blog', 'python-example', 'en_US'), and its env is exactly
\* {'year': '2024', 'language': 'Python'}.
C7_GetAddressesAddedDocument ==
    \A r \in Runs :
        Len(sent[r]) >= 2 =>
            LET a == sent[r][1].request
                g == sent[r][2].request
            IN  /\ a.op = "Add" /\ g.op = "Get"
                /\ <<g.collection, g.key, g.lang>> = <<a.collection, a.key, a.lang>>
                /\ <<g.collection, g.key, g.lang>> = <<"blog", "python-example", "en_US">>
                /\ DOMAIN g.env = {"year", "language"}
                /\ g.env["year"] = "2024"
                /\ g.env["language"] = "Python"

\* The Get request is out, after an Add whose response named another document.
C7_Witness ==
    /\ pc[First] = <<"Get", "wait">> /\ Len(sent[First]) = 2
    /\ locals[First].doc.key = "other"

\* C8 as stated: at the end the success message has been printed exactly when
\* all five calls returned a response; never together with an error report;
\* and not after the channel was closed.
C8_SuccessIffAllCallsReturned ==
    \A r \in Runs :
        /\ Terminated(r) => (Printed(r, "success") <=> AllReturned(r))
        /\ Printed(r, "success") => ErrorReports(r) = 0
        /\ channel[r].state = "closed" => Printed(r, "success")

\* C8 amended: at the end the success message has been printed exactly when
\* all five calls returned a response and nothing was raised in main(); it is
\* printed once, never together with an error report, while the channel is
\* still open, and the channel is closed only after it.
C8_SuccessIffNothingRaised ==
    \A r \in Runs :
        /\ Terminated(r) =>
               (Printed(r, "success") <=> (AllReturned(r) /\ exc[r] = "none"))
        /\ Printed(r, "success") => AllReturned(r) /\ exc[r] = "none"
        /\ Count(r, "success") <= 1
        /\ Printed(r, "success") => ErrorReports(r) = 0
        /\ channel[r].state = "closed" => Printed(r, "success")
        /\ pc[r] = <<"main", "close">> =>
               Printed(r, "success") /\ channel[r].state = "open"

\* The execution printed the success message and has not closed the channel yet.
C8_Witness ==
    /\ pc[First] = <<"main", "close">> /\ Printed(First, "success")
    /\ AllReturned(First) /\ channel[First].state = "open"

\* The execution got all five responses, raised while reading the last one and
\* ended without the success message.
C8_WitnessRaisedAfterBackup ==
    /\ Done(First) /\ AllReturned(First)
    /\ exc[First] = "Exception" /\ ~Printed(First, "success")

\* C9: if every call eventually returns or raises, every execution eventually
\* terminates, as a success (five responses, success message, channel closed)
\* or as a failure (one error report), never both; and while a call is
\* outstanding the execution does nothing but wait for it: it sends nothing,
\* and only the call's return or failure moves it.
C9_TerminatesOrBlocks ==
    /\ <>Terminated(First)
    /\ [](\A r \in Runs : Terminated(r) =>
              /\ Done(r)
              /\ Success(r) \/ Failure(r)
              /\ ~(Success(r) /\ Failure(r)))
    /\ [][\A r \in Runs : inflight[r] > 0 =>
              /\ sent'[r] = sent[r]
              /\ pc'[r] = pc[r] \/ inflight'[r] = inflight[r] - 1]_vars

\* The execution has ended as a failure after blocking on the Stats call.
C9_Witness ==
    /\ Done(First) /\ Failure(First) /\ ~Success(First)
    /\ exc[First] = "RpcError" /\ Len(sent[First]) = 4 /\ Len(received[First]) = 3

\* The execution has ended as a success.
C9_WitnessSuccess ==
    Done(First) /\ Success(First) /\ ~Failure(First)

\* The execution is blocked on an outstanding call.
C9_WitnessBlocked ==
    inflight[First] = 1 /\ pc[First] = <<"Stats", "wait">> /\ ~Terminated(First)

\* C10: one channel per execution, to localhost:11024: it is created at most
\* once and before anything is sent, every request goes over it while it is
\* open, it is closed only when the Backup response is in, and once closed it
\* stays closed and carries nothing.
C10_OneChannel ==
    /\ [](\A r \in Runs :
              /\ opened[r] <= 1
              /\ sent[r] # <<>> => opened[r] = 1
              /\ \A n \in 1..Len(sent[r]) : sent[r][n].target = "localhost:11024"
              /\ channel[r].state # "none" => channel[r].target = "localhost:11024"
              /\ channel[r].state = "closed" => AllReturned(r) /\ inflight[r] = 0)
    /\ [][\A r \in Runs :
              /\ sent'[r] # sent[r] =>
                     channel[r].state = "open" /\ channel'[r] = channel[r]
              /\ opened'[r] # opened[r] => sent[r] = <<>> /\ channel[r].state = "none"
              /\ channel[r].state = "closed" =>
                     channel'[r] = channel[r] /\ sent'[r] = sent[r]]_vars

\* The execution sent its five requests and closed its channel.
C10_Witness ==
    /\ channel[First].state = "closed" /\ opened[First] = 1 /\ Len(sent[First]) = 5

====
